---- MODULE Spec2Model ----
(***************************************************************************)
(* A model of conda-gitlab-ci's dependency-graph engine                    *)
(* (src/conda_gitlab_ci/compute_build_graph.py): construct_graph,          *)
(* upstream_dependencies_needing_build, expand_run, dirty and order_build. *)
(*                                                                         *)
(* The graph is a networkx DiGraph: a dictionary of nodes, each with a     *)
(* dictionary of attributes, and a set of directed edges                   *)
(* package -> dependency.  A missing attribute reads as None through       *)
(* dict.get, which the code only ever tests for truth, so a missing flag   *)
(* is FALSE here and a missing recipe is recipe = FALSE.                   *)
(***************************************************************************)
EXTENDS Integers, Sequences, FiniteSets, TLC

\* Package names of the model.
Names == {"a", "b", "c"}

\* Bounds of the model.
MaxRecipes == 2      \* recipe directories visited by construct_graph
MaxEdges == 2        \* edges of a graph handed directly to expand_run / order_build
MaxSteps == 2        \* largest non-negative `steps` argument
MaxDownstream == 1   \* largest non-negative `max_downstream` argument
MaxWork == 4         \* cap on the entries appended to Pass 1's worklist and not yet walked
MaxPlaced == 2       \* how often a name is counted on Pass 1's worklist (2: more than once)

VARIABLES
    graph,          \* the DiGraph: [node : name -> attributes, edges : set of <<pkg, dep>>]
    recipes,        \* construct_graph: what api.render returned for each directory visited, in order
    deps_type,      \* construct_graph's deps_type argument
    resolver,       \* what the resolver and the recipe directories answer for each package, once asked
    up,             \* frame of upstream_dependencies_needing_build
    ex,             \* frame of expand_run with its arguments; `marked` records the nodes its downstream pass assigned
    snapshot,       \* the graph as it was right after Pass 1 and at the last return of expand_run
    ob,             \* frame of order_build with its arguments, and of the topological sort it runs
    raised,         \* the exception that ended the last call, or NoError
    result,         \* what the last call returned, or NoResult
    pc,             \* position of the program
    env             \* os.environ and the frame of set_conda_env_vars (build_matrix.py)

vars == <<graph, recipes, deps_type, resolver, up, ex, snapshot, ob, raised, result, pc, env>>

----------------------------------------------------------------------------
(* Sequences and sets *)

Range(s) == {s[i] : i \in DOMAIN s}

\* All orders in which a dictionary or set with these keys can be iterated.
Orders(S) == {s \in [1..Cardinality(S) -> S] : Range(s) = S}

----------------------------------------------------------------------------
(* Node attributes *)

\* meta['version'] is only ever handed on to the resolver; the model keeps
\* where the string came from: no meta at all (read as ""), the version the
\* recipe declares, or the constraint a dependent gave for the dependency.
NoVersion == "no-version"
RecipeVersion == "recipe-version"
DepConstraint == "dep-constraint"

\* A node added by add_edge alone: no attributes.
BareNode == [build |-> FALSE, test |-> FALSE, install |-> FALSE,
             recipe |-> FALSE, version |-> NoVersion]

\* g.add_node(dep, meta={..., 'version': version})
PlaceholderNode == [BareNode EXCEPT !.version = DepConstraint]

EmptyGraph == [node |-> <<>>, edges |-> {}]

Nodes(g) == DOMAIN g.node

Successors(g, n) == {e[2] : e \in {d \in g.edges : d[1] = n}}

Predecessors(g, n) == {e[1] : e \in {d \in g.edges : d[2] = n}}

\* g.add_node(n, **attrs) for a node that is not in the graph
AddNode(g, n, attrs) == [g EXCEPT !.node = (n :> attrs) @@ g.node]

\* g.add_edge(u, v): both ends are added, without attributes, when missing
AddEdge(g, u, v) ==
    LET g1 == IF u \in Nodes(g) THEN g ELSE AddNode(g, u, BareNode)
        g2 == IF v \in Nodes(g1) THEN g1 ELSE AddNode(g1, v, BareNode)
    IN  [g2 EXCEPT !.edges = @ \cup {<<u, v>>}]

----------------------------------------------------------------------------
(* construct_graph *)

\* run_dict: all three flags False, then run_dict[deps_type] = True when the
\* recipe's directory is in folders.
RunDict(dt, changed) ==
    [build |-> changed /\ dt = "build", test |-> changed /\ dt = "test",
     install |-> FALSE]

\* A faulty variant of RegisterRecipe: the flags of a node that exists are
\* left as they are, as without g.node[name].update(run_dict).
RegisterRecipeKeepFlags(g, name, rd) ==
    IF name \notin Nodes(g)
    THEN AddNode(g, name, [build |-> rd.build, test |-> rd.test,
                           install |-> rd.install, recipe |-> TRUE,
                           version |-> RecipeVersion])
    ELSE [g EXCEPT !.node[name] =
             [@ EXCEPT !.version = RecipeVersion, !.recipe = TRUE]]

\* The `if not pkg.skip()` block: a new node gets meta, recipe and run_dict;
\* an existing one gets meta and recipe assigned and its flags updated from
\* run_dict (dict.update assigns all three keys).
RegisterRecipe(g, name, rd) ==
    IF name \notin Nodes(g)
    THEN AddNode(g, name, [build |-> rd.build, test |-> rd.test,
                           install |-> rd.install, recipe |-> TRUE,
                           version |-> RecipeVersion])
    ELSE [g EXCEPT !.node[name] =
             [@ EXCEPT !.version = RecipeVersion, !.recipe = TRUE,
                       !.build = rd.build, !.test = rd.test,
                       !.install = rd.install]]

\* One iteration of `for dep, version in deps.items()`
AddDep(g, name, dep) ==
    LET g1 == IF dep \notin Nodes(g) THEN AddNode(g, dep, PlaceholderNode) ELSE g
        g2 == [g1 EXCEPT !.node[dep].install = TRUE]
    IN  AddEdge(g2, name, dep)

\* The whole dependency loop, in the order ds in which deps.items() yields.
RECURSIVE AddDeps(_, _, _)
AddDeps(g, name, ds) ==
    IF ds = <<>> THEN g
    ELSE AddDeps(AddDep(g, name, Head(ds)), name, Tail(ds))

\* The body of `for rd in recipe_dirs` for one rendered recipe r.
VisitRecipe(g, dt, r, ds) ==
    LET g1 == IF ~r.skip THEN RegisterRecipe(g, r.name, RunDict(dt, r.changed))
              ELSE g
    IN  AddDeps(g1, r.name, ds)

\* What api.render can return for a directory, with whether the directory is
\* in folders: the deps are those deps_type selects.
Rendered == [name : Names, skip : BOOLEAN, changed : BOOLEAN, deps : SUBSET Names]

NoError == [exc |-> "none", msg |-> "", args |-> <<>>]
NoResult == [of |-> "none", value |-> {}]
NoUpstream == [initial |-> {}, dirty_nodes |-> <<>>, successors |-> {},
               placed |-> [n \in Names |-> 0], caller |-> "none"]
Unasked == [n \in Names |-> "unasked"]
NoExpand == [run |-> "none", steps |-> 0, max_downstream |-> 0, calls |-> 0,
             downstream |-> 0, initial_dirty |-> 0, start_dirty_nodes |-> {},
             step |-> 0, dirty_nodes |-> {}, predecessors |-> {}, count |-> 0,
             marked |-> {}]
NotSeen == [pass1 |-> EmptyGraph, returned |-> EmptyGraph]
NoPackages == [given |-> FALSE, names |-> {}]
NoOrder == [packages |-> NoPackages, filter_dirty |-> TRUE, tmp_global |-> EmptyGraph,
            nbunch |-> {}, fringe |-> <<>>, seen |-> {}, explored |-> {},
            order |-> <<>>, iterations |-> 0]

\* os.environ.get of a variable that is not set, and the mark of such a
\* variable in the model's os.environ
None == "<None>"
Unset == "<unset>"

\* The environment variables of the model
EnvVars == {"CONDA_PY", "CONDA_NPY"}

\* No environment, outside the runs of set_conda_env_vars.
NoEnv == [environ |-> [v \in EnvVars |-> Unset], env_dict |-> <<>>, todo |-> {},
          backup_dict |-> <<>>, restore |-> {}, before |-> [v \in EnvVars |-> Unset],
          at |-> "none"]

InitConstruct ==
    /\ graph = EmptyGraph
    /\ recipes = <<>>
    /\ deps_type \in {"build", "test"}
    /\ resolver = Unasked
    /\ up = NoUpstream
    /\ ex = NoExpand
    /\ snapshot = NotSeen
    /\ ob = NoOrder
    /\ raised = NoError
    /\ result = NoResult
    /\ pc = "construct"
    /\ env = NoEnv

\* One recipe directory is rendered and entered into the graph.
Visit ==
    /\ pc = "construct"
    /\ Len(recipes) < MaxRecipes
    /\ \E r \in Rendered : \E ds \in Orders(r.deps) :
          /\ graph' = VisitRecipe(graph, deps_type, r, ds)
          /\ recipes' = Append(recipes, r)
    /\ UNCHANGED <<deps_type, resolver, up, ex, snapshot, ob, raised, result, pc>>
    /\ UNCHANGED env

\* return g
ReturnGraph ==
    /\ pc = "construct"
    /\ pc' = "idle"
    /\ result' = [of |-> "construct_graph", value |-> Nodes(graph)]
    /\ UNCHANGED <<graph, recipes, deps_type, resolver, up, ex, snapshot, ob, raised>>
    /\ UNCHANGED env

----------------------------------------------------------------------------
(* upstream_dependencies_needing_build (Pass 1) *)

\* The resolver's index and the recipe directories on disk do not change
\* during a run, and Pass 1 asks about a package with the version its node
\* carries, which Pass 1 never changes: each package has one answer, fixed
\* the first time it is asked for.  _buildable is asked only after
\* _installable said no, so there are three answers.
Answers == {"installable", "buildable", "neither"}

\* any([value.get('build'), value.get('install'), value.get('test')])
NeedsCheck(g) == {n \in Nodes(g) : g.node[n].build \/ g.node[n].install \/ g.node[n].test}

\* graph.node[successor]['build'] = True
MarkBuild(g, s) == [g EXCEPT !.node[s].build = TRUE]

\* The arguments of the ValueError raised for successor s: the message is
\* formatted from the successor's name alone.
UnsatisfiableArgs(g, s) == <<s>>

\* The frame of the function.  The list dirty_nodes is the initial entries,
\* in the order graph.node.items() yields them, followed by the appended
\* ones, and `for node in dirty_nodes` walks it front to back while it
\* grows.  The frame keeps the part still to be walked: `initial`, the
\* initial entries not reached yet (their dictionary order is any order), and
\* `dirty_nodes`, the appended entries not reached yet, in order.  `placed`
\* counts how often each name has been put on the list so far (up to
\* MaxPlaced: the loop never reads the count), and `successors` is what the
\* inner loop has still to yield.
UpstreamFrame(g, caller) ==
    [initial |-> NeedsCheck(g), dirty_nodes |-> <<>>, successors |-> {},
     placed |-> [n \in Names |-> IF n \in NeedsCheck(g) THEN 1 ELSE 0],
     caller |-> caller]

\* dirty_nodes.append(successor), on the part of the list still to be walked
\* and in the count of the name
PlaceOnList(f, s) ==
    [f EXCEPT !.dirty_nodes = Append(@, s),
              !.placed[s] = IF @ < MaxPlaced THEN @ + 1 ELSE @]

\* The call upstream_dependencies_needing_build(graph, conda_resolve) itself.
CallUpstream ==
    /\ pc = "idle"
    /\ result.of = "construct_graph"
    /\ up' = UpstreamFrame(graph, "direct")
    /\ pc' = "upstream"
    /\ raised' = NoError
    /\ result' = NoResult
    /\ UNCHANGED <<graph, recipes, deps_type, resolver, ex, snapshot, ob>>
    /\ UNCHANGED env

\* `for node in dirty_nodes`: the next entry of the list, an initial one
\* while there are any, then the appended ones in order.  Its successors
\* are what the inner loop walks.
UpstreamNextNode ==
    /\ pc = "upstream"
    /\ up.successors = {}
    /\ \/ \E node \in up.initial :
             up' = [up EXCEPT !.initial = @ \ {node},
                              !.successors = Successors(graph, node)]
       \/ /\ up.initial = {}
          /\ up.dirty_nodes # <<>>
          /\ up' = [up EXCEPT !.dirty_nodes = Tail(@),
                              !.successors = Successors(graph, Head(up.dirty_nodes))]
    /\ UNCHANGED <<graph, recipes, deps_type, resolver, ex, snapshot, ob, raised, result, pc>>
    /\ UNCHANGED env

\* One iteration of `for successor in graph.successors_iter(node)`
UpstreamExamine ==
    /\ pc = "upstream"
    /\ \E s \in up.successors :
       \E ans \in (IF resolver[s] = "unasked" THEN Answers ELSE {resolver[s]}) :
          /\ resolver' = [resolver EXCEPT ![s] = ans]
          /\ IF ans = "installable"
             THEN /\ up' = [up EXCEPT !.successors = @ \ {s}]
                  /\ UNCHANGED <<graph, raised, pc>>
             ELSE IF ans = "buildable"
             THEN /\ Len(up.dirty_nodes) < MaxWork
                  /\ graph' = MarkBuild(graph, s)
                  /\ up' = [PlaceOnList(up, s) EXCEPT !.successors = @ \ {s}]
                  /\ UNCHANGED <<raised, pc>>
             ELSE /\ raised' = [exc |-> "ValueError",
                                msg |-> "Dependency {0} is not installable, and recipe (if available) can't produce desired version.",
                                args |-> UnsatisfiableArgs(graph, s)]
                  /\ pc' = "raised"
                  /\ up' = NoUpstream
                  /\ UNCHANGED graph
    /\ UNCHANGED <<recipes, deps_type, ex, snapshot, ob, result>>
    /\ UNCHANGED env

\* set(dirty_nodes)
UpstreamResult(f) == {n \in Names : f.placed[n] > 0}

\* return set(dirty_nodes), to a direct caller
UpstreamReturn ==
    /\ pc = "upstream"
    /\ up.caller = "direct"
    /\ up.initial = {}
    /\ up.dirty_nodes = <<>>
    /\ up.successors = {}
    /\ result' = [of |-> "upstream_dependencies_needing_build",
                  value |-> UpstreamResult(up)]
    /\ up' = NoUpstream
    /\ pc' = "idle"
    /\ UNCHANGED <<graph, recipes, deps_type, resolver, ex, snapshot, ob, raised>>
    /\ UNCHANGED env

\* The resolver's answer for a package Pass 1 did not ask about.
AskResolver ==
    /\ pc = "idle"
    /\ result.of = "upstream_dependencies_needing_build"
    /\ \E n \in Nodes(graph) : \E ans \in Answers :
          /\ resolver[n] = "unasked"
          /\ resolver' = [resolver EXCEPT ![n] = ans]
    /\ UNCHANGED <<graph, recipes, deps_type, up, ex, snapshot, ob, raised, result, pc>>
    /\ UNCHANGED env

----------------------------------------------------------------------------
(* dirty and expand_run *)

\* dirty(graph): the nodes with build or test set.  The code returns a dict
\* of the nodes' attribute dictionaries, which are the graph's own objects,
\* so two such dicts are equal exactly when their keys are.
dirty(g) == {n \in Nodes(g) : g.node[n].build \/ g.node[n].test}

\* graph.node[predecessor][run] = True
MarkRun(g, p, run) == [g EXCEPT !.node[p][run] = TRUE]

\* The test in expand_step, with the count it keeps in `downstream`
UnderCap(max_downstream, count, initial_dirty) ==
    max_downstream < 0 \/ (count - initial_dirty) < max_downstream

\* A faulty variant of MoreSteps: one layer too many, as range(steps + 1) would run.
MoreStepsInclusive(steps, step) == steps < 0 \/ step <= steps

\* Whether the loop runs expand_step once more: `for step in range(steps)`,
\* or `while True` when steps < 0
MoreSteps(steps, step) == steps < 0 \/ step < steps

\* A faulty variant of Stable: the sizes are compared the wrong way round, so the
\* loop breaks after its first layer.
StableBySize(start_dirty_nodes, g) ==
    Cardinality(start_dirty_nodes) <= Cardinality(dirty(g))

\* `if start_dirty_nodes == new_dirty: break`
Stable(start_dirty_nodes, g) == start_dirty_nodes = dirty(g)

StepsArgs == -1 .. MaxSteps
DownstreamArgs == -1 .. MaxDownstream

\* expand_run(graph, conda_resolve, run, steps, max_downstream) is entered:
\* its first statement calls Pass 1.
EnterExpandRun(run, steps, max_downstream) ==
    /\ ex' = [NoExpand EXCEPT !.run = run, !.steps = steps,
                              !.max_downstream = max_downstream,
                              !.calls = ex.calls + 1]
    /\ up' = UpstreamFrame(graph, "expand_run")
    /\ pc' = "upstream"
    /\ raised' = NoError
    /\ result' = NoResult
    /\ UNCHANGED <<graph, recipes, deps_type, resolver, snapshot, ob>>
    /\ UNCHANGED env

CallExpandRun ==
    /\ pc = "idle"
    /\ ex.calls = 0
    /\ \E run \in {"build", "test"} : \E steps \in StepsArgs :
       \E max_downstream \in DownstreamArgs :
          EnterExpandRun(run, steps, max_downstream)

\* expand_run is called again on the graph it returned, with the arguments
\* of the first call.
RepeatExpandRun ==
    /\ pc = "idle"
    /\ ex.calls = 1
    /\ result.of = "expand_run"
    /\ EnterExpandRun(ex.run, ex.steps, ex.max_downstream)

\* Pass 1 returns into expand_run (its value is dropped): downstream = 0,
\* initial_dirty = len(dirty(graph)), and, for steps < 0,
\* start_dirty_nodes = dirty(graph).
UpstreamReturnToExpand ==
    /\ pc = "upstream"
    /\ up.caller = "expand_run"
    /\ up.initial = {}
    /\ up.dirty_nodes = <<>>
    /\ up.successors = {}
    /\ up' = NoUpstream
    /\ ex' = [ex EXCEPT !.downstream = 0,
                        !.initial_dirty = Cardinality(dirty(graph)),
                        !.start_dirty_nodes =
                            IF ex.steps < 0 THEN dirty(graph) ELSE {}]
    /\ snapshot' = [snapshot EXCEPT !.pass1 = graph]
    /\ pc' = "expand"
    /\ UNCHANGED <<graph, recipes, deps_type, resolver, ob, raised, result>>
    /\ UNCHANGED env

\* expand_step(dirty_nodes, downstream) is entered, from `for step in
\* range(steps)` with dirty(graph), or from `while True` with
\* start_dirty_nodes.
ExpandStepBegin ==
    /\ pc = "expand"
    /\ MoreSteps(ex.steps, ex.step)
    /\ ex' = [ex EXCEPT !.dirty_nodes =
                            IF ex.steps < 0 THEN ex.start_dirty_nodes
                            ELSE dirty(graph),
                        !.predecessors = {},
                        !.count = ex.downstream]
    /\ pc' = "expand_step"
    /\ UNCHANGED <<graph, recipes, deps_type, resolver, up, snapshot, ob, raised, result>>
    /\ UNCHANGED env

\* `for node in dirty_nodes`: the next node, and its predecessors
ExpandStepNode ==
    /\ pc = "expand_step"
    /\ ex.predecessors = {}
    /\ \E node \in ex.dirty_nodes :
          ex' = [ex EXCEPT !.dirty_nodes = @ \ {node},
                           !.predecessors = Predecessors(graph, node)]
    /\ UNCHANGED <<graph, recipes, deps_type, resolver, up, snapshot, ob, raised, result, pc>>
    /\ UNCHANGED env

\* One iteration of `for predecessor in graph.predecessors(node)`
ExpandStepPredecessor ==
    /\ pc = "expand_step"
    /\ \E p \in ex.predecessors :
          IF UnderCap(ex.max_downstream, ex.count, ex.initial_dirty)
          THEN /\ graph' = MarkRun(graph, p, ex.run)
               /\ ex' = [ex EXCEPT !.predecessors = @ \ {p}, !.count = @ + 1,
                                   !.marked = @ \cup {p}]
          ELSE /\ ex' = [ex EXCEPT !.predecessors = @ \ {p}]
               /\ UNCHANGED graph
    /\ UNCHANGED <<recipes, deps_type, resolver, up, snapshot, ob, raised, result, pc>>
    /\ UNCHANGED env

\* return dirty(graph)
ExpandResult(g) == [of |-> "expand_run", value |-> dirty(g)]

\* A faulty variant of ExpandStepEnd: after each layer the upstream pass is
\* run again over the flagged nodes before the loop goes on.
ExpandStepEndRevalidates ==
    /\ pc = "expand_step"
    /\ ex.dirty_nodes = {}
    /\ ex.predecessors = {}
    /\ ex' = [ex EXCEPT !.step = @ + 1]
    /\ up' = UpstreamFrame(graph, "expand_run")
    /\ pc' = "upstream"
    /\ UNCHANGED <<graph, recipes, deps_type, resolver, snapshot, ob, raised, result>>
    /\ UNCHANGED env

\* expand_step returns len(dirty(graph)) into `downstream`.  In the
\* `for` loop that ends one step; in the `while` loop the dirty set is
\* compared with start_dirty_nodes, and the function returns when they are
\* equal.
ExpandStepEnd ==
    /\ pc = "expand_step"
    /\ ex.dirty_nodes = {}
    /\ ex.predecessors = {}
    /\ IF ex.steps >= 0
       THEN /\ ex' = [ex EXCEPT !.downstream = Cardinality(dirty(graph)),
                                !.count = 0, !.step = @ + 1]
            /\ pc' = "expand"
            /\ UNCHANGED <<snapshot, result>>
       ELSE IF Stable(ex.start_dirty_nodes, graph)
       THEN /\ ex' = [ex EXCEPT !.downstream = Cardinality(dirty(graph)),
                                !.count = 0, !.start_dirty_nodes = {},
                                !.step = @ + 1]
            /\ result' = ExpandResult(graph)
            /\ snapshot' = [snapshot EXCEPT !.returned = graph]
            /\ pc' = "idle"
       ELSE /\ ex' = [ex EXCEPT !.downstream = Cardinality(dirty(graph)),
                                !.count = 0, !.start_dirty_nodes = dirty(graph),
                                !.step = @ + 1]
            /\ pc' = "expand"
            /\ UNCHANGED <<snapshot, result>>
    /\ UNCHANGED <<graph, recipes, deps_type, resolver, up, ob, raised>>
    /\ UNCHANGED env

\* The `for step in range(steps)` loop is over: return dirty(graph)
ExpandReturn ==
    /\ pc = "expand"
    /\ ~MoreSteps(ex.steps, ex.step)
    /\ result' = ExpandResult(graph)
    /\ snapshot' = [snapshot EXCEPT !.returned = graph]
    /\ pc' = "idle"
    /\ UNCHANGED <<graph, recipes, deps_type, resolver, up, ex, ob, raised>>
    /\ UNCHANGED env

----------------------------------------------------------------------------
(* Graphs handed to expand_run and order_build by a caller *)

\* The nodes construct_graph makes: a recipe that is not in folders, one
\* that is (deps_type 'build'), and a dependency without a recipe.
UnchangedRecipe == [build |-> FALSE, test |-> FALSE, install |-> FALSE,
                    recipe |-> TRUE, version |-> RecipeVersion]
ChangedRecipe == [UnchangedRecipe EXCEPT !.build = TRUE]
Dependency == [PlaceholderNode EXCEPT !.install = TRUE]

NodeKinds == {UnchangedRecipe, ChangedRecipe, Dependency}

EdgeSets == {E \in SUBSET (Names \X Names) : Cardinality(E) <= MaxEdges}

Graphs == {[node |-> node, edges |-> E] : node \in [Names -> NodeKinds], E \in EdgeSets}

InitGraph ==
    /\ graph \in Graphs
    /\ recipes = <<>>
    /\ deps_type = "build"
    /\ resolver = Unasked
    /\ up = NoUpstream
    /\ ex = NoExpand
    /\ snapshot = NotSeen
    /\ ob = NoOrder
    /\ raised = NoError
    /\ result = NoResult
    /\ pc = "idle"
    /\ env = NoEnv

MaxOrderEdges == 3   \* edges of a graph handed directly to order_build

OrderGraphs ==
    {[node |-> node, edges |-> E] :
        node \in [Names -> NodeKinds],
        E \in {F \in SUBSET (Names \X Names) : Cardinality(F) <= MaxOrderEdges}}

InitOrderGraph ==
    /\ graph \in OrderGraphs
    /\ recipes = <<>>
    /\ deps_type = "build"
    /\ resolver = Unasked
    /\ up = NoUpstream
    /\ ex = NoExpand
    /\ snapshot = NotSeen
    /\ ob = NoOrder
    /\ raised = NoError
    /\ result = NoResult
    /\ pc = "idle"
    /\ env = NoEnv

NextExpand ==
    \/ CallExpandRun
    \/ RepeatExpandRun
    \/ UpstreamNextNode
    \/ UpstreamExamine
    \/ UpstreamReturnToExpand
    \/ ExpandStepBegin
    \/ ExpandStepNode
    \/ ExpandStepPredecessor
    \/ ExpandStepEnd
    \/ ExpandReturn

SpecExpand == InitGraph /\ [][NextExpand]_vars

NextConstruct ==
    \/ Visit
    \/ ReturnGraph
    \/ CallUpstream
    \/ UpstreamNextNode
    \/ UpstreamExamine
    \/ UpstreamReturn
    \/ AskResolver

SpecConstruct == InitConstruct /\ [][NextConstruct]_vars

\* Pass 1 alone, called on a graph construct_graph returned.
InitPass1 ==
    /\ graph \in Graphs
    /\ recipes = <<>>
    /\ deps_type = "build"
    /\ resolver = Unasked
    /\ up = NoUpstream
    /\ ex = NoExpand
    /\ snapshot = NotSeen
    /\ ob = NoOrder
    /\ raised = NoError
    /\ result = [of |-> "construct_graph", value |-> Nodes(graph)]
    /\ pc = "idle"
    /\ env = NoEnv

NextPass1 ==
    \/ CallUpstream
    \/ UpstreamNextNode
    \/ UpstreamExamine
    \/ UpstreamReturn

\* The interpreter keeps running the loop: a step that can be taken is taken.
SpecPass1 == InitPass1 /\ [][NextPass1]_vars /\ WF_vars(NextPass1)

----------------------------------------------------------------------------
(* order_build *)

\* The packages argument: None, or a sequence of names (the code only
\* tests it for emptiness and hands it to subgraph, so its names suffice).
PackagesArgs == {NoPackages} \cup {[given |-> TRUE, names |-> P] : P \in SUBSET Names}

\* A faulty variant of OrderPackages: filter_dirty is not applied.
OrderPackagesUnfiltered(g, packages, filter_dirty) ==
    IF ~packages.given \/ packages.names = {} THEN Nodes(g) ELSE packages.names

\* `if not packages:` both None and an empty sequence are replaced, by
\* graph.nodes() or, with filter_dirty, by dirty(graph).
OrderPackages(g, packages, filter_dirty) ==
    IF ~packages.given \/ packages.names = {}
    THEN IF filter_dirty THEN dirty(g) ELSE Nodes(g)
    ELSE packages.names

\* graph.subgraph(packages): the nodes of the graph among packages and the
\* edges between them; the loop after it assigns each node the attributes
\* it has in graph.
Subgraph(g, P) ==
    [node |-> [n \in Nodes(g) \cap P |-> g.node[n]],
     edges |-> {e \in g.edges : e[1] \in P /\ e[2] \in P}]

\* A faulty variant of GraphAfterSubgraph: the nodes outside packages are
\* removed from the graph itself, as graph.remove_nodes_from would do.
GraphPruned(g, P) == Subgraph(g, P)

\* The argument graph after lines 279-283: graph.subgraph(packages) builds
\* a new graph, and the loop assigns into tmp_global.node, so the argument
\* keeps its nodes, edges and attributes.
GraphAfterSubgraph(g, P) == g

\* A faulty variant of CycleFound: the test for a node already seen is left out.
CycleFoundNever(new, seen_nodes) == FALSE

\* nx.topological_sort's test on the successors of w that are not explored:
\* one of them has been seen, so it is on the path being walked.
CycleFound(new, seen_nodes) == new \cap seen_nodes # {}

Reverse(s) == [i \in 1..Len(s) |-> s[Len(s) + 1 - i]]

\* A faulty variant of SortResult: the order of reverse=False, dependents first.
SortResultForward(order) == Reverse(order)

\* What nx.topological_sort(G, reverse=True) returns from the post-order it built.
SortResult(order) == order

\* order_build(graph, packages, filter_dirty=...) up to the call of
\* nx.topological_sort.
CallOrderBuild ==
    /\ pc = "idle"
    /\ ob = NoOrder
    /\ \E packages \in PackagesArgs : \E filter_dirty \in BOOLEAN :
          LET P == OrderPackages(graph, packages, filter_dirty)
              tmp == Subgraph(graph, P)
          IN  /\ ob' = [NoOrder EXCEPT !.packages = packages,
                                       !.filter_dirty = filter_dirty,
                                       !.tmp_global = tmp,
                                       !.nbunch = Nodes(tmp)]
              /\ graph' = GraphAfterSubgraph(graph, P)
    /\ pc' = "order"
    /\ raised' = NoError
    /\ result' = NoResult
    /\ UNCHANGED <<recipes, deps_type, resolver, up, ex, snapshot>>
    /\ UNCHANGED env

\* topological_sort, `for v in nbunch`: the next node of the graph, skipped
\* when explored, else the start of a depth-first walk.
SortNextRoot ==
    /\ pc = "order"
    /\ ob.fringe = <<>>
    /\ \E v \in ob.nbunch :
          ob' = [ob EXCEPT !.nbunch = @ \ {v},
                           !.fringe = IF v \in ob.explored THEN <<>> ELSE <<v>>]
    /\ UNCHANGED <<graph, recipes, deps_type, resolver, up, ex, snapshot, raised, result, pc>>
    /\ UNCHANGED env

\* topological_sort, one round of `while fringe`, for w = fringe[-1]
SortVisit ==
    /\ pc = "order"
    /\ ob.fringe # <<>>
    /\ LET w == ob.fringe[Len(ob.fringe)]
           rest == SubSeq(ob.fringe, 1, Len(ob.fringe) - 1)
           new == Successors(ob.tmp_global, w) \ ob.explored
       IN  IF w \in ob.explored
           THEN /\ ob' = [ob EXCEPT !.fringe = rest, !.iterations = @ + 1]
                /\ UNCHANGED <<raised, pc>>
           ELSE IF CycleFound(new, ob.seen \cup {w})
           THEN \* NetworkXUnfeasible, caught by order_build
                /\ raised' = [exc |-> "ValueError",
                              msg |-> "Cycles detected in graph: {0}",
                              args |-> <<>>]
                /\ ob' = [ob EXCEPT !.nbunch = {}, !.fringe = <<>>, !.seen = {},
                                    !.explored = {}, !.order = <<>>,
                                    !.iterations = @ + 1]
                /\ pc' = "raised"
           ELSE IF new # {}
           THEN /\ \E new_nodes \in Orders(new) :
                      ob' = [ob EXCEPT !.seen = @ \cup {w},
                                       !.fringe = @ \o new_nodes,
                                       !.iterations = @ + 1]
                /\ UNCHANGED <<raised, pc>>
           ELSE /\ ob' = [ob EXCEPT !.seen = @ \cup {w},
                                    !.explored = @ \cup {w},
                                    !.order = Append(@, w),
                                    !.fringe = rest,
                                    !.iterations = @ + 1]
                /\ UNCHANGED <<raised, pc>>
    /\ UNCHANGED <<graph, recipes, deps_type, resolver, up, ex, snapshot, result>>
    /\ UNCHANGED env

\* return tmp_global, order
OrderReturn ==
    /\ pc = "order"
    /\ ob.fringe = <<>>
    /\ ob.nbunch = {}
    /\ ob' = [ob EXCEPT !.order = SortResult(ob.order), !.seen = {}, !.explored = {}]
    /\ result' = [of |-> "order_build", value |-> Nodes(ob.tmp_global)]
    /\ pc' = "idle"
    /\ UNCHANGED <<graph, recipes, deps_type, resolver, up, ex, snapshot, raised>>
    /\ UNCHANGED env

NextOrder ==
    \/ CallOrderBuild
    \/ SortNextRoot
    \/ SortVisit
    \/ OrderReturn

SpecOrder == InitOrderGraph /\ [][NextOrder]_vars

----------------------------------------------------------------------------
(* Paths in the graph *)

\* The nodes with an edge to a node of S
PredecessorsOf(g, S) == {e[1] : e \in {d \in g.edges : d[2] \in S}}

\* The nodes with an edge from a node of S
SuccessorsOf(g, S) == {e[2] : e \in {d \in g.edges : d[1] \in S}}

\* The nodes from which a walk of exactly k edges leads into S
RECURSIVE WalkInto(_, _, _)
WalkInto(g, S, k) == IF k = 0 THEN S ELSE PredecessorsOf(g, WalkInto(g, S, k - 1))

\* The nodes from which 1 to k edges lead into S
WithinInto(g, S, k) == UNION {WalkInto(g, S, j) : j \in 1..k}

\* The nodes from which S is reached over at least one edge: a shortest such
\* walk repeats no node but its end, so it has at most Cardinality(Names) edges.
Dependents(g, S) == WithinInto(g, S, Cardinality(Names))

\* The nodes a walk of exactly k edges from S leads to
RECURSIVE WalkFrom(_, _, _)
WalkFrom(g, S, k) == IF k = 0 THEN S ELSE SuccessorsOf(g, WalkFrom(g, S, k - 1))

\* The nodes reached from S over at least one edge
Dependencies(g, S) == UNION {WalkFrom(g, S, j) : j \in 1..Cardinality(Names)}

----------------------------------------------------------------------------
(* Claims about construct_graph and Pass 1 *)

\* The recipe rendered in this step, when the step is a Visit
Visited == recipes'[Len(recipes')]

\* The step merges a recipe into a node that a dependency created earlier.
MergesPlaceholder ==
    /\ pc = "construct"
    /\ Len(recipes') = Len(recipes) + 1
    /\ ~Visited.skip
    /\ Visited.name \in Nodes(graph)
    /\ graph.node[Visited.name].install
    /\ ~graph.node[Visited.name].recipe

\* C6: a dependency placeholder (install true, no recipe) whose own recipe
\* is visited later keeps install = true after the merge, gets its build
\* flag from whether its directory is in the changed set, and loses no flag
\* that was true.
C6_MergeKeepsFlags ==
    [][MergesPlaceholder =>
         LET n == Visited.name
         IN  /\ graph'.node[n].install
             /\ graph'.node[n].recipe
             /\ graph'.node[n].build = (Visited.changed /\ deps_type = "build")
             /\ \A f \in {"build", "test", "install"} :
                   graph.node[n][f] => graph'.node[n][f]]_vars

\* The names construct_graph flagged for build: those whose last recipe that
\* is not skipped lies in a changed directory (deps_type 'build').
ChangedRecipes ==
    {n \in Names : \E i \in DOMAIN recipes :
        /\ recipes[i].name = n /\ ~recipes[i].skip /\ recipes[i].changed
        /\ \A j \in DOMAIN recipes :
              (j > i /\ recipes[j].name = n) => recipes[j].skip}

Pass1Returned == pc = "idle" /\ result.of = "upstream_dependencies_needing_build"

NotInstallable(n) == resolver[n] \in {"buildable", "neither"}

\* C3: after construct_graph with deps_type 'build', when Pass 1 returns,
\* every transitive dependency of a changed recipe that the resolver reports
\* not installable has its build flag set.
C3_UpstreamClosure ==
    (Pass1Returned /\ deps_type = "build") =>
        \A n \in Dependencies(graph, ChangedRecipes) :
            NotInstallable(n) => graph.node[n].build

----------------------------------------------------------------------------
(* Claims about expand_run *)

ExpandReturned == pc = "idle" /\ result.of = "expand_run"

\* dirty(graph) as it was right after Pass 1
DirtyAfterPass1 == dirty(snapshot.pass1)

\* C4: with steps = -1 and max_downstream = k >= 0, the dirty set on return
\* has at most k nodes more than right after Pass 1.
C4_DownstreamCap ==
    (ExpandReturned /\ ex.steps = -1 /\ ex.max_downstream >= 0) =>
        Cardinality(result.value) - ex.initial_dirty <= ex.max_downstream

\* The build and test flags of g are all set in h.
FlagsWithin(g, h) ==
    \A n \in Nodes(g) :
        /\ g.node[n].build => (n \in Nodes(h) /\ h.node[n].build)
        /\ g.node[n].test => (n \in Nodes(h) /\ h.node[n].test)

\* C5: once expand_run with steps = -1 has returned, the same call again
\* does not raise and sets no build or test flag that was not set.
C5_Idempotent ==
    (ex.calls = 2 /\ ex.steps = -1) =>
        /\ pc # "raised"
        /\ FlagsWithin(graph, snapshot.returned)

\* C7: a dependency that is neither installable nor buildable makes Pass 1
\* raise an error that names the package and the version required of it;
\* nothing is returned and expand_run marks nothing downstream.
C7_UnsatisfiableReported ==
    \A n \in Names : resolver[n] = "neither" =>
        /\ pc = "raised"
        /\ raised.exc = "ValueError"
        /\ n \in Range(raised.args)
        /\ graph.node[n].version \in Range(raised.args)
        /\ result = NoResult
        /\ ex.marked = {} /\ ex.step = 0

\* C8: with steps = n >= 0 and max_downstream = -1 the downstream pass
\* assigns the target flag to exactly the nodes from which 1 to n edges lead
\* to a node that was dirty right after Pass 1, and changes nothing else.
C8_ExactLayers ==
    (ExpandReturned /\ ex.steps >= 0 /\ ex.max_downstream = -1) =>
        /\ ex.marked = WithinInto(snapshot.pass1, DirtyAfterPass1, ex.steps)
        /\ graph.edges = snapshot.pass1.edges
        /\ \A n \in Names :
              graph.node[n] =
                  IF n \in ex.marked
                  THEN [snapshot.pass1.node[n] EXCEPT ![ex.run] = TRUE]
                  ELSE snapshot.pass1.node[n]

\* A run of two layers in which the second layer reached a node the first did not.
C8_Witness ==
    /\ ExpandReturned /\ ex.steps = 2 /\ ex.max_downstream = -1
    /\ \E n \in ex.marked :
          /\ n \notin WithinInto(snapshot.pass1, DirtyAfterPass1, 1)
          /\ n \notin DirtyAfterPass1

\* C9: with steps = -1 and max_downstream = -1 the loop ends after at most
\* one layer per node and one more, and on return every node from which a
\* node dirty after Pass 1 is reachable has the target flag.
C9_FixedPoint ==
    (ex.steps = -1 /\ ex.max_downstream = -1) =>
        /\ ex.step <= Cardinality(Names) + 1
        /\ ExpandReturned =>
              \A n \in Dependents(snapshot.pass1, DirtyAfterPass1) :
                  graph.node[n][ex.run]

\* A fixed point on a graph with a cycle, reached over more than one layer.
C9_Witness ==
    /\ ExpandReturned /\ ex.steps = -1 /\ ex.max_downstream = -1
    /\ \E n \in Names : n \in Dependencies(graph, {n}) /\ n \in ex.marked
    /\ \E n \in ex.marked :
          n \notin WithinInto(snapshot.pass1, DirtyAfterPass1, 1)

----------------------------------------------------------------------------
(* Claims about order_build *)

OrderReturned == pc = "idle" /\ result.of = "order_build"

OrderRaised == pc = "raised" /\ raised.msg = "Cycles detected in graph: {0}"

OrderCalled == pc = "order" \/ OrderReturned \/ OrderRaised

\* The nodes order_build is asked to order, by its arguments
Requested ==
    IF ob.packages.given /\ ob.packages.names # {} THEN ob.packages.names
    ELSE IF ob.filter_dirty THEN dirty(graph) ELSE Nodes(graph)

\* The subgraph of graph that the requested nodes induce
Induced ==
    [node |-> [n \in Requested \cap Nodes(graph) |-> graph.node[n]],
     edges |-> {e \in graph.edges : e[1] \in Requested /\ e[2] \in Requested}]

HasCycle(g) == \E n \in Nodes(g) : n \in Dependencies(g, {n})

Position(s, x) == CHOOSE i \in DOMAIN s : s[i] = x

\* C1: when the induced subgraph is acyclic, order_build returns, and in the
\* order every node of the subgraph appears exactly once and every
\* dependency precedes the package that depends on it.
C1_DependenciesFirst ==
    ((OrderReturned \/ OrderRaised) /\ ~HasCycle(Induced)) =>
        /\ OrderReturned
        /\ Range(ob.order) = Nodes(Induced)
        /\ Len(ob.order) = Cardinality(Nodes(Induced))
        /\ \A e \in Induced.edges :
              Position(ob.order, e[2]) < Position(ob.order, e[1])

\* An order of three packages with a dependency reached on two ways.
C1_Witness ==
    /\ OrderReturned
    /\ Len(ob.order) = 3
    /\ Cardinality(Induced.edges) = 3

\* C2: when the induced subgraph has a directed cycle, order_build never
\* returns an order, full or partial: the sort ends, after a bounded number
\* of rounds, in the ValueError 'Cycles detected in graph'.
C2_CycleRaises ==
    (OrderCalled /\ HasCycle(Induced)) =>
        /\ result = NoResult
        /\ ob.iterations <= 2 * Cardinality(Nodes(Induced)) + Cardinality(Induced.edges)
        /\ pc = "raised" => (raised.exc = "ValueError" /\ OrderRaised /\ ob.order = <<>>)
        /\ pc = "order" => ENABLED (SortNextRoot \/ SortVisit)

\* The cycle a -> b -> a is found after a node outside it was ordered.
C2_Witness ==
    /\ OrderRaised
    /\ \E x, y \in Requested :
          /\ x # y /\ <<x, y>> \in graph.edges /\ <<y, x>> \in graph.edges
          /\ <<x, x>> \notin graph.edges /\ <<y, y>> \notin graph.edges
    /\ ob.iterations > 2

C10_WitnessDirty ==
    /\ OrderReturned
    /\ ~ob.packages.given /\ ob.filter_dirty
    /\ Cardinality(dirty(graph)) = 2
    /\ Cardinality(Induced.edges) = 1

\* C11: order_build tells None from an empty sequence: with packages=None and
\* filter_dirty at its default every node of the graph is in the returned
\* order, with an empty sequence only the dirty nodes are.
C11_NoneOrdersWholeGraph ==
    (OrderReturned /\ ob.filter_dirty) =>
        /\ ~ob.packages.given => Range(ob.order) = Nodes(graph)
        /\ (ob.packages.given /\ ob.packages.names = {}) =>
              Range(ob.order) = dirty(graph)

----------------------------------------------------------------------------
(* Further claims about construct_graph and Pass 1 *)

ConstructReturned == pc = "idle" /\ result.of = "construct_graph"

\* No other visited recipe produces the package of the i-th one.
SoleRecipe(i) ==
    \A j \in DOMAIN recipes : j # i => recipes[j].name # recipes[i].name

\* C12: a recipe the renderer reports as skipped is still registered: the
\* graph construct_graph returns has a node of its package name, also when
\* the recipe has no dependencies, and the recipe sets neither the build nor
\* the test flag of that node, changed directory or not.
C12_SkippedRegistered ==
    ConstructReturned =>
        \A i \in DOMAIN recipes : recipes[i].skip =>
            /\ recipes[i].name \in Nodes(graph)
            /\ (SoleRecipe(i) /\ recipes[i].name \in Nodes(graph)) =>
                  /\ ~graph.node[recipes[i].name].build
                  /\ ~graph.node[recipes[i].name].test

\* C13: after construct_graph the node of a recipe that is not skipped and
\* alone produces its package has build set exactly when its directory is
\* changed and deps_type is 'build', and test set exactly when its directory
\* is changed and deps_type is 'test', placeholder before or not.
C13_OwnFlags ==
    ConstructReturned =>
        \A i \in DOMAIN recipes : (~recipes[i].skip /\ SoleRecipe(i)) =>
            /\ recipes[i].name \in Nodes(graph)
            /\ graph.node[recipes[i].name].build =
                   (recipes[i].changed /\ deps_type = "build")
            /\ graph.node[recipes[i].name].test =
                   (recipes[i].changed /\ deps_type = "test")

\* A changed recipe visited after a dependent had made its node a placeholder.
C13_Witness ==
    /\ ConstructReturned
    /\ Len(recipes) = 2
    /\ recipes[1].name # recipes[2].name
    /\ recipes[2].name \in recipes[1].deps
    /\ ~recipes[2].skip /\ recipes[2].changed
    /\ graph.node[recipes[2].name].build

\* C16: in Pass 1 no node is put on the worklist more than once.
C16_PlacedOnce == \A n \in Names : up.placed[n] <= 1

\* C17: the graph construct_graph returns does not depend on the order in
\* which the recipe directories are visited: two recipes of distinct packages
\* visited the other way round give the same nodes, edges and build, test
\* and install flags, and so the same initial worklist of Pass 1.
C17_OrderIndependent ==
    (ConstructReturned /\ Len(recipes) = 2 /\ recipes[1].name # recipes[2].name) =>
        \A ds1 \in Orders(recipes[1].deps) : \A ds2 \in Orders(recipes[2].deps) :
            LET first == VisitRecipe(EmptyGraph, deps_type, recipes[2], ds2)
                other == VisitRecipe(first, deps_type, recipes[1], ds1)
            IN  /\ Nodes(other) = Nodes(graph)
                /\ other.edges = graph.edges
                /\ \A n \in Nodes(graph) : \A f \in {"build", "test", "install"} :
                      other.node[n][f] = graph.node[n][f]
                /\ NeedsCheck(other) = NeedsCheck(graph)

----------------------------------------------------------------------------
(* Further claims about order_build *)

\* C19: order_build treats the graph as read-only: no step of it, up to its
\* return or its cycle error, changes the graph's nodes, edges, flags or
\* metadata.
C19_GraphReadOnly ==
    [][(pc \in {"idle", "order"}) => graph' = graph]_vars

\* A cycle error for a subgraph that leaves out a node of the graph.
C19_Witness ==
    /\ OrderRaised
    /\ Nodes(ob.tmp_global) # {}
    /\ Nodes(ob.tmp_global) # Nodes(graph)
    /\ ob.tmp_global.edges # graph.edges

----------------------------------------------------------------------------
(* Further claims about expand_run *)

InDownstreamPass == pc \in {"expand", "expand_step"}

----------------------------------------------------------------------------
(* Claims about recipes and the build flag *)

\* C18: after construct_graph and the upstream pass that expand_run starts
\* with, every node whose build flag is set has a recipe directory recorded:
\* the flag is never set on a dependency placeholder or on a node that only
\* add_edge registered for a skipped recipe.
C18_BuildHasRecipe ==
    Pass1Returned =>
        \A n \in Nodes(graph) : graph.node[n].build => graph.node[n].recipe

----------------------------------------------------------------------------
(* Termination of Pass 1 *)

\* C15: upstream_dependencies_needing_build terminates on every graph and
\* every resolver: a call that has started returns or raises (or its list
\* outgrows what the model keeps of it), also on a cycle of nodes that are
\* not installable but buildable.
C15_Pass1Terminates ==
    (pc = "upstream") ~>
        (pc \in {"idle", "raised"} \/ Len(up.dirty_nodes) >= MaxWork)

----------------------------------------------------------------------------
(* set_conda_env_vars (build_matrix.py) *)

\* The other variables, which set_conda_env_vars leaves alone
graphVars == <<graph, recipes, deps_type, resolver, up, ex, snapshot, ob, raised, result, pc>>

\* Values of environment variables, and values of env_dict: a string or
\* None, or a list, of which the first element is what counts.
EnvStrings == {"", "27", "35"}
DictValues == [list : BOOLEAN, value : {None, "", "35"}]
EnvDicts == UNION {[D -> DictValues] : D \in SUBSET EnvVars}

\* `if isinstance(value, list): value = value[0]`, `if not value: value = ""`
Coerce(v) == IF v.value \in {None, ""} THEN "" ELSE v.value

\* os.environ.get(env_var)
EnvironGet(environ, v) == IF environ[v] = Unset THEN None ELSE environ[v]

\* The second loop's body: `if not value: del os.environ[env_var]`,
\* `else: os.environ[env_var] = value`
Restored(value) == IF value \in {None, ""} THEN Unset ELSE value

InitEnv ==
    /\ graph = EmptyGraph
    /\ recipes = <<>>
    /\ deps_type = "build"
    /\ resolver = Unasked
    /\ up = NoUpstream
    /\ ex = NoExpand
    /\ snapshot = NotSeen
    /\ ob = NoOrder
    /\ raised = NoError
    /\ result = NoResult
    /\ pc = "idle"
    /\ \E environ \in [EnvVars -> EnvStrings \cup {Unset}] :
          env = [NoEnv EXCEPT !.environ = environ, !.before = environ, !.at = "idle"]

\* `with set_conda_env_vars(env_dict):` is entered.
EnterWith ==
    /\ env.at = "idle"
    /\ \E env_dict \in EnvDicts :
          env' = [env EXCEPT !.env_dict = env_dict, !.todo = DOMAIN env_dict,
                             !.backup_dict = <<>>, !.before = env.environ,
                             !.at = "enter"]
    /\ UNCHANGED graphVars

\* One iteration of `for env_var, value in env_dict.items()`
SetVar ==
    /\ env.at = "enter"
    /\ \E env_var \in env.todo :
          env' = [env EXCEPT
                    !.backup_dict = (env_var :> EnvironGet(env.environ, env_var)) @@ @,
                    !.environ[env_var] = Coerce(env.env_dict[env_var]),
                    !.todo = @ \ {env_var}]
    /\ UNCHANGED graphVars

\* yield: the body of the with-block runs.
Yield ==
    /\ env.at = "enter"
    /\ env.todo = {}
    /\ env' = [env EXCEPT !.at = "body"]
    /\ UNCHANGED graphVars

\* The body ends normally: the generator resumes after the yield.
BodyReturns ==
    /\ env.at = "body"
    /\ env' = [env EXCEPT !.at = "exit", !.restore = DOMAIN env.backup_dict]
    /\ UNCHANGED graphVars

\* The body raises: contextlib throws the exception into the generator at
\* the yield, which is not inside a try, so the generator ends there and the
\* exception leaves the with-block.
BodyRaises ==
    /\ env.at = "body"
    /\ env' = [env EXCEPT !.at = "raised"]
    /\ UNCHANGED graphVars

\* One iteration of `for env_var, value in backup_dict.items()`
RestoreVar ==
    /\ env.at = "exit"
    /\ \E env_var \in env.restore :
          env' = [env EXCEPT
                    !.environ[env_var] = Restored(env.backup_dict[env_var]),
                    !.restore = @ \ {env_var}]
    /\ UNCHANGED graphVars

\* The generator ends and the with-block is left.
LeaveWith ==
    /\ env.at = "exit"
    /\ env.restore = {}
    /\ env' = [env EXCEPT !.at = "done"]
    /\ UNCHANGED graphVars

NextEnv ==
    \/ EnterWith
    \/ SetVar
    \/ Yield
    \/ BodyReturns
    \/ BodyRaises
    \/ RestoreVar
    \/ LeaveWith

SpecEnv == InitEnv /\ [][NextEnv]_vars

\* C20: set_conda_env_vars restores the environment: once the with-block is
\* left, normally or because the body raised, every variable has the state
\* it had before entry: unset if it was unset, the same value if it was set,
\* the empty string included, and variables not in env_dict never change.
C20_EnvironmentRestored ==
    /\ env.at \in {"done", "raised"} => env.environ = env.before
    /\ \A v \in EnvVars \ DOMAIN env.env_dict : env.environ[v] = env.before[v]

====
